---- MODULE Spec2Model ----
(***************************************************************************)
(* A model of the gold/silver price scraper (src/scraper.py): the numeric  *)
(* parser cleanup_text, the OCR candidate aggregator                       *)
(* extract_price_from_base64_image, the validators is_price_plausible and  *)
(* validate_data, the attempt/retry/fallback loop of main(), and the page  *)
(* scrapers scrape_isagha and scrape_safehaven; and of scrape_prices and   *)
(* main of the Selenium scrapers (src/scraper_selenium.py and              *)
(* src/scraper_selenium_fixed.py).                                         *)
(*                                                                         *)
(* Python values are modelled as follows.                                  *)
(*   - a str is a sequence of one-character strings;                       *)
(*   - an optional value is None (the empty tuple) or Some(v) (<<v>>);     *)
(*   - a float is a canonical decimal [mant, exp] standing for             *)
(*     mant * 10^(-exp): every number the program handles is read from at  *)
(*     most a handful of decimal digits, for which float() is injective on *)
(*     values and order-preserving;                                        *)
(*   - the outcome of a call is [raised, value].                           *)
(***************************************************************************)
EXTENDS Integers, Sequences, FiniteSets, TLC

VARIABLES
    pc,             \* position of the running function
    text,           \* cleanup_text: its argument
    parsed,         \* cleanup_text: the outcome of the call, once made
    metal,          \* is_price_plausible: its first argument
    price,          \* is_price_plausible: its second argument
    plausible,      \* is_price_plausible: what it returned, once called
    data,           \* validate_data: its argument
    verdict,        \* validate_data: what it returned, once called
    strategy,       \* extract_price_from_base64_image: index of the next strategy
    recognized,     \* ... what image_to_string gave for each strategy so far
    candidates,     \* ... its local list candidates
    extracted,      \* ... the outcome of the call, once made
    extract_exit,   \* ... the statement it left by
    attempt,        \* main: the loop variable attempt
    data_primary,   \* main: what scrape_isagha returned in this attempt
    data_backup,    \* main: what scrape_safehaven returned
    final_data,     \* main: the local final_data
    prices_json,    \* the content of the file prices.json, None while not written
    exit_status,    \* the exit status of the process, None while running
    history,        \* the attempts made so far and how each ended
    accepted,       \* the snapshots validate_data has accepted in this run
    source,         \* the scraper that is running: scrape_isagha or scrape_safehaven
    container,      \* scrape_isagha: index into metals of the container being read
    seen,           \* the cards (scrape_isagha) or rows (scrape_safehaven) read so far
    scrape_data,    \* the scraper's dicts under construction
    scraped,        \* the outcome of the scraper's call, once made
    script,         \* the Selenium scraper that is running
    browser,        \* the Chrome that webdriver.Chrome starts: none, running, quit
    driver,         \* scrape_prices (Selenium): its local driver
    karat_ix,       \* ... index of the next instrument to look for
    sel_data,       \* ... its local data
    scrape_result,  \* ... how its try block ended, then the outcome of the call
    main_result,    \* main (Selenium): the outcome of the call, once ended
    prices_file     \* main (Selenium): the content of prices.json, None while not written

parseVars == <<text, parsed>>
plausibleVars == <<metal, price, plausible>>
validateVars == <<data, verdict>>
extractVars == <<strategy, recognized, candidates, extracted, extract_exit>>
mainVars == <<attempt, data_primary, data_backup, final_data, prices_json,
              exit_status, history, accepted>>
scrapeVars == <<source, container, seen, scrape_data, scraped>>
seleniumVars == <<script, browser, driver, karat_ix, sel_data, scrape_result,
                  main_result, prices_file>>
vars == <<pc, parseVars, plausibleVars, validateVars, extractVars, mainVars,
          scrapeVars, seleniumVars>>

-----------------------------------------------------------------------------
(* Python values *)

None == <<>>
Some(v) == <<v>>
Val(o) == o[1]

Return(v) == [raised |-> FALSE, value |-> v]
Raise == [raised |-> TRUE, value |-> None]
NotCalled == [raised |-> FALSE, value |-> <<"not called">>]

RECURSIVE Pow10(_)
Pow10(n) == IF n = 0 THEN 1 ELSE 10 * Pow10(n - 1)

\* The canonical form of mant * 10^(-exp): no trailing zero in the fraction.
RECURSIVE Canon(_, _)
Canon(mant, exp) ==
    IF exp > 0 /\ mant % 10 = 0 THEN Canon(mant \div 10, exp - 1)
    ELSE [mant |-> mant, exp |-> exp]

FromInt(n) == Canon(n, 0)

\* a < b on floats
FloatLT(a, b) == a.mant * Pow10(b.exp) < b.mant * Pow10(a.exp)
\* n * a on floats, n an int
FloatTimes(n, a) == Canon(n * a.mant, a.exp)

-----------------------------------------------------------------------------
(* The variables of a function that is not the one running *)

IdleParse == text = None /\ parsed = NotCalled
IdlePlausible == metal = "" /\ price = None /\ plausible = None
IdleValidate == data = <<>> /\ verdict = None
IdleExtract ==
    /\ strategy = 0
    /\ recognized = <<>>
    /\ candidates = <<>>
    /\ extracted = NotCalled
    /\ extract_exit = ""
IdleMain ==
    /\ attempt = 0
    /\ data_primary = None
    /\ data_backup = None
    /\ final_data = None
    /\ prices_json = None
    /\ exit_status = None
    /\ history = <<>>
    /\ accepted = {}
IdleScrape ==
    /\ source = ""
    /\ container = 0
    /\ seen = <<>>
    /\ scrape_data = <<>>
    /\ scraped = NotCalled
IdleSelenium ==
    /\ script = ""
    /\ browser = "none"
    /\ driver = None
    /\ karat_ix = 0
    /\ sel_data = <<>>
    /\ scrape_result = NotCalled
    /\ main_result = NotCalled
    /\ prices_file = None

-----------------------------------------------------------------------------
(* str operations *)

Digits == {"0", "1", "2", "3", "4", "5", "6", "7", "8", "9"}

DigitValue(c) ==
    CASE c = "0" -> 0 [] c = "1" -> 1 [] c = "2" -> 2 [] c = "3" -> 3
      [] c = "4" -> 4 [] c = "5" -> 5 [] c = "6" -> 6 [] c = "7" -> 7
      [] c = "8" -> 8 [] c = "9" -> 9

\* str.replace(old, new) for one-character old and new
StrReplace(s, old, new) == [i \in 1..Len(s) |-> IF s[i] = old THEN new ELSE s[i]]

\* str.count(c)
RECURSIVE StrCount(_, _)
StrCount(s, c) ==
    IF s = <<>> THEN 0
    ELSE (IF Head(s) = c THEN 1 ELSE 0) + StrCount(Tail(s), c)

\* str.replace(c, '')
RECURSIVE StrRemove(_, _)
StrRemove(s, c) ==
    IF s = <<>> THEN <<>>
    ELSE (IF Head(s) = c THEN <<>> ELSE <<Head(s)>>) \o StrRemove(Tail(s), c)

\* re.sub(r'[^\d.]', '', s): keeps the digits and the dots
RECURSIVE KeepNumeric(_)
KeepNumeric(s) ==
    IF s = <<>> THEN <<>>
    ELSE (IF Head(s) \in Digits \cup {"."} THEN <<Head(s)>> ELSE <<>>)
         \o KeepNumeric(Tail(s))

\* str.split(sep): the pieces between the occurrences of sep, Len = count + 1
\* (cur is the piece being read, done the pieces already closed)
RECURSIVE SplitFrom(_, _, _, _)
SplitFrom(s, sep, cur, done) ==
    IF s = <<>> THEN Append(done, cur)
    ELSE IF Head(s) = sep THEN SplitFrom(Tail(s), sep, <<>>, Append(done, cur))
         ELSE SplitFrom(Tail(s), sep, Append(cur, Head(s)), done)

StrSplit(s, sep) == SplitFrom(s, sep, <<>>, <<>>)

\* "".join(parts)
RECURSIVE StrJoin(_)
StrJoin(parts) ==
    IF parts = <<>> THEN <<>> ELSE Head(parts) \o StrJoin(Tail(parts))

\* the number a string of digits writes ("" gives 0)
RECURSIVE DigitsToNat(_)
DigitsToNat(s) ==
    IF s = <<>> THEN 0
    ELSE 10 * DigitsToNat(SubSeq(s, 1, Len(s) - 1)) + DigitValue(s[Len(s)])

\* float(s) on a string of digits and dots: digits, at most one dot, and at
\* least one digit; anything else raises ValueError.
float(s) ==
    LET parts == StrSplit(s, ".")
        ndigits == Len(s) - StrCount(s, ".")
    IN IF Len(parts) > 2 \/ ndigits = 0 \/ \E i \in 1..Len(s) : s[i] \notin Digits \cup {"."}
       THEN Raise
       ELSE LET int == parts[1]
                frac == IF Len(parts) = 2 THEN parts[2] ELSE <<>>
            IN Return(Canon(DigitsToNat(int \o frac), Len(frac)))

-----------------------------------------------------------------------------
(* cleanup_text *)

\* The OCR confusion table: letters read for digits.
Substitute(s) ==
    LET s1 == StrReplace(StrReplace(s, "S", "5"), "s", "5")
        s2 == StrReplace(StrReplace(s1, "O", "0"), "o", "0")
        s3 == StrReplace(StrReplace(s2, "I", "1"), "l", "1")
    IN StrReplace(s3, "B", "8")

\* Mutant: a trailing group of three digits or more counts as thousands.
SeparatorRule_AtLeastThree(cleaned) ==
    IF StrCount(cleaned, ".") > 0
    THEN LET parts == StrSplit(cleaned, ".")
             last == parts[Len(parts)]
         IN IF Len(last) >= 3 THEN StrRemove(cleaned, ".")
            ELSE IF StrCount(cleaned, ".") > 1
                 THEN StrJoin(SubSeq(parts, 1, Len(parts) - 1)) \o <<".">> \o last
                 ELSE cleaned
    ELSE cleaned

\* Mutant: of several dots the first is kept, not the last.
SeparatorRule_KeepFirst(cleaned) ==
    IF StrCount(cleaned, ".") > 0
    THEN LET parts == StrSplit(cleaned, ".")
             last == parts[Len(parts)]
         IN IF Len(last) = 3 THEN StrRemove(cleaned, ".")
            ELSE IF StrCount(cleaned, ".") > 1
                 THEN parts[1] \o <<".">> \o StrJoin(SubSeq(parts, 2, Len(parts)))
                 ELSE cleaned
    ELSE cleaned

\* The separator rule applied to the stripped text.
SeparatorRule(cleaned) ==
    IF StrCount(cleaned, ".") > 0
    THEN LET parts == StrSplit(cleaned, ".")
             last == parts[Len(parts)]
         IN IF Len(last) = 3 THEN StrRemove(cleaned, ".")
            ELSE IF StrCount(cleaned, ".") > 1
                 THEN StrJoin(SubSeq(parts, 1, Len(parts) - 1)) \o <<".">> \o last
                 ELSE cleaned
    ELSE cleaned

\* What float() is given: the text after substitution, comma normalisation,
\* stripping and the separator rule.
Cleaned(t) == SeparatorRule(KeepNumeric(StrReplace(Substitute(t), ",", ".")))

\* Mutant: the ValueError of float() is not caught.
CatchValueError_Uncaught(f) == IF f.raised THEN Raise ELSE Return(Some(f.value))

\* except ValueError: return None
CatchValueError(f) == IF f.raised THEN Return(None) ELSE Return(Some(f.value))

cleanup_text(txt) ==
    IF txt = None \/ Val(txt) = <<>> THEN Return(None)
    ELSE CatchValueError(float(Cleaned(Val(txt))))

-----------------------------------------------------------------------------
(* Inputs of the numeric parser *)

MaxTextLen == 6

Alphabet == {"5", "7", "S", ".", ",", "x"}

\* The texts the specification's examples name.
ExampleTexts ==
    { <<"5", ".", "7", "4", "5">>,
      <<"5", "7", ".", "4", "5">>,
      <<"1", ".", "2", ".", "3", "4", "5">>,
      <<"1", ",", "2", "3", "4", ".", "5", "6">> }

\* The recognized texts: every string over Alphabet of at most MaxTextLen
\* characters, and the examples.
Texts == UNION {[1..n -> Alphabet] : n \in 0..MaxTextLen} \cup ExampleTexts

-----------------------------------------------------------------------------
(* The numeric parser applied to one recognized text *)

InitParse ==
    /\ pc = "cleanup_text"
    /\ text \in {None} \cup {Some(t) : t \in Texts}
    /\ parsed = NotCalled
    /\ IdlePlausible
    /\ IdleValidate
    /\ IdleExtract
    /\ IdleMain
    /\ IdleScrape
    /\ IdleSelenium

CallCleanupText ==
    /\ pc = "cleanup_text"
    /\ parsed' = cleanup_text(text)
    /\ pc' = "returned"
    /\ UNCHANGED <<text, plausibleVars, validateVars, extractVars, mainVars,
                   scrapeVars, seleniumVars>>

NextParse == CallCleanupText

SpecParse == InitParse /\ [][NextParse]_vars

-----------------------------------------------------------------------------
(* is_price_plausible *)

MIN_GOLD_PRICE == 2000
MIN_SILVER_PRICE == 40

\* Mutant: the gold and silver floors are exclusive.
is_price_plausible_ExclusiveFloor(m, p) ==
    IF p = None THEN FALSE
    ELSE IF m = "gold"
         THEN IF ~FloatLT(FromInt(MIN_GOLD_PRICE), Val(p)) THEN FALSE
              ELSE IF FloatLT(FromInt(100000), Val(p)) THEN FALSE
              ELSE TRUE
         ELSE IF m = "silver"
              THEN IF ~FloatLT(FromInt(MIN_SILVER_PRICE), Val(p)) THEN FALSE
                   ELSE IF FloatLT(FromInt(5000), Val(p)) THEN FALSE
                   ELSE TRUE
              ELSE TRUE

is_price_plausible(m, p) ==
    IF p = None THEN FALSE
    ELSE IF m = "gold"
         THEN IF FloatLT(Val(p), FromInt(MIN_GOLD_PRICE)) THEN FALSE
              ELSE IF FloatLT(FromInt(100000), Val(p)) THEN FALSE
              ELSE TRUE
         ELSE IF m = "silver"
              THEN IF FloatLT(Val(p), FromInt(MIN_SILVER_PRICE)) THEN FALSE
                   ELSE IF FloatLT(FromInt(5000), Val(p)) THEN FALSE
                   ELSE TRUE
              ELSE TRUE

-----------------------------------------------------------------------------
(* validate_data *)

Sides == <<"sell", "buy">>

\* Mutant: an implausible silver price does not mark the snapshot.
CheckField_SilverNotTainting(m, p, acc) ==
    IF is_price_plausible(m, p)
    THEN [acc EXCEPT !.total_prices = @ + 1, !.valid_prices = @ + 1]
    ELSE IF p # None /\ m = "gold"
         THEN [acc EXCEPT !.total_prices = @ + 1, !.suspicious_found = TRUE]
         ELSE [acc EXCEPT !.total_prices = @ + 1]

\* One pass of the inner loop: count the field, count it valid when
\* plausible, mark the snapshot when it is populated and implausible.
CheckField(m, p, acc) ==
    IF is_price_plausible(m, p)
    THEN [acc EXCEPT !.total_prices = @ + 1, !.valid_prices = @ + 1]
    ELSE IF p # None
         THEN [acc EXCEPT !.total_prices = @ + 1, !.suspicious_found = TRUE]
         ELSE [acc EXCEPT !.total_prices = @ + 1]

\* for type_ in ["sell", "buy"]
CheckValues(m, values, acc) ==
    CheckField(m, values[Sides[2]], CheckField(m, values[Sides[1]], acc))

\* for karat, values in data[m].items(), over the grades not yet visited
RECURSIVE CheckItems(_, _, _, _)
CheckItems(m, items, todo, acc) ==
    IF todo = {} THEN acc
    ELSE LET k == CHOOSE g \in todo : TRUE
         IN CheckItems(m, items, todo \ {k}, CheckValues(m, items[k], acc))

\* if m in data: the loop over its items
CheckMetal(m, d, acc) ==
    IF m \in DOMAIN d THEN CheckItems(m, d[m], DOMAIN d[m], acc) ELSE acc

\* Mutant: a coverage of exactly 0.8 is accepted.
CoverageExceeds_AtLeast(valid, total) == total > 0 /\ 10 * valid >= 8 * total

\* total_prices > 0 and (valid_prices / total_prices) > 0.8. The quotient of
\* two small counts rounds to the float 0.8 exactly when it is 8/10, so the
\* float comparison is the comparison of the fractions.
CoverageExceeds(valid, total) == total > 0 /\ 10 * valid > 8 * total

\* The returned triple, and the final value of the local suspicious_found.
validate_data(d) ==
    LET start == [valid_prices |-> 0, total_prices |-> 0, suspicious_found |-> FALSE]
        counts == CheckMetal("silver", d, CheckMetal("gold", d, start))
    IN [is_valid |-> IF counts.suspicious_found THEN FALSE
                     ELSE CoverageExceeds(counts.valid_prices, counts.total_prices),
        valid_prices |-> counts.valid_prices,
        total_prices |-> counts.total_prices,
        suspicious_found |-> counts.suspicious_found]

-----------------------------------------------------------------------------
(* Inputs of the validators *)

\* Prices are sampled to the hundredth on both sides of each limit of
\* is_price_plausible, Spread hundredths wide.
Spread == 5

Limits == {MIN_SILVER_PRICE, MIN_GOLD_PRICE, 5000, 100000}

PriceSamples ==
    {Canon(100 * l + d, 2) : l \in Limits, d \in (0 - Spread)..Spread}
    \cup {FromInt(0), FromInt(745), FromInt(5765)}

\* The grades a source may quote.
REQUIRED_GOLD == {"24", "21", "18"}
REQUIRED_SILVER == {"999", "925", "800"}
EXTRA_GOLD == {"22"}

\* The quotes a grade may carry: both sides plausible, the sell side
\* missing, both sides missing, the buy side implausible.
GoodPrice(m) == IF m = "gold" THEN Some(FromInt(5765)) ELSE Some(Canon(5745, 2))
BadPrice(m) == IF m = "gold" THEN Some(FromInt(745)) ELSE Some(Canon(57, 1))

Quotes(m) ==
    { [sell |-> GoodPrice(m), buy |-> GoodPrice(m)],
      [sell |-> None, buy |-> GoodPrice(m)],
      [sell |-> None, buy |-> None],
      [sell |-> GoodPrice(m), buy |-> BadPrice(m)] }

\* Every dict of quotes whose grades include must and lie within must and may.
Items(m, must, may) ==
    UNION {[must \cup extra -> Quotes(m)] : extra \in SUBSET may}

\* Every argument validate_data is tried on: any grades, and either key
\* possibly missing.
AnyData ==
    LET gold == Items("gold", {}, REQUIRED_GOLD \cup EXTRA_GOLD)
        silver == Items("silver", {}, REQUIRED_SILVER)
    IN {[gold |-> g, silver |-> v] : g \in gold, v \in silver}
       \cup {[gold |-> g] : g \in gold}
       \cup {[silver |-> v] : v \in silver}

-----------------------------------------------------------------------------
(* is_price_plausible applied to one price *)

InitPlausible ==
    /\ pc = "is_price_plausible"
    /\ metal \in {"gold", "silver"}
    /\ price \in {None} \cup {Some(p) : p \in PriceSamples}
    /\ plausible = None
    /\ IdleParse
    /\ IdleValidate
    /\ IdleExtract
    /\ IdleMain
    /\ IdleScrape
    /\ IdleSelenium

CallIsPricePlausible ==
    /\ pc = "is_price_plausible"
    /\ plausible' = Some(is_price_plausible(metal, price))
    /\ pc' = "plausibility_returned"
    /\ UNCHANGED <<metal, price, parseVars, validateVars, extractVars,
                   mainVars, scrapeVars, seleniumVars>>

NextPlausible == CallIsPricePlausible

SpecPlausible == InitPlausible /\ [][NextPlausible]_vars

-----------------------------------------------------------------------------
(* validate_data applied to one snapshot *)

InitValidate ==
    /\ pc = "validate_data"
    /\ data \in AnyData
    /\ verdict = None
    /\ IdleParse
    /\ IdlePlausible
    /\ IdleExtract
    /\ IdleMain
    /\ IdleScrape
    /\ IdleSelenium

CallValidateData ==
    /\ pc = "validate_data"
    /\ verdict' = Some(validate_data(data))
    /\ pc' = "verdict_returned"
    /\ UNCHANGED <<data, parseVars, plausibleVars, extractVars, mainVars,
                   scrapeVars, seleniumVars>>

NextValidate == CallValidateData

SpecValidate == InitValidate /\ [][NextValidate]_vars

-----------------------------------------------------------------------------
(* The validators' claims *)

\* a sampled price in hundredths
InHundredths(p) == p.mant * Pow10(2 - p.exp)

WithinClosedRange(m, p) ==
    /\ p # None
    /\ m = "gold" => (200000 <= InHundredths(Val(p)) /\ InHundredths(Val(p)) <= 10000000)
    /\ m = "silver" => (4000 <= InHundredths(Val(p)) /\ InHundredths(Val(p)) <= 500000)

\* C5: is_price_plausible is a closed range per metal: true for gold exactly
\* when 2000 <= price <= 100000, for silver exactly when 40 <= price <= 5000,
\* both limits included, and false for an absent price.
C5_ClosedRanges ==
    pc = "plausibility_returned" => Val(plausible) = WithinClosedRange(metal, price)

\* a gold price of exactly 2000 has been found plausible
C5_Witness ==
    /\ pc = "plausibility_returned"
    /\ metal = "gold"
    /\ price = Some(FromInt(2000))
    /\ plausible = Some(TRUE)

\* the fields of a snapshot: both sides of every grade it holds
Grades(d) == {mg \in (DOMAIN d) \X (REQUIRED_GOLD \cup EXTRA_GOLD \cup REQUIRED_SILVER) :
                mg[2] \in DOMAIN d[mg[1]]}
Fields(d) == {<<mg[1], mg[2], side>> : mg \in Grades(d), side \in {"sell", "buy"}}
FieldPrice(d, f) == d[f[1]][f[2]][f[3]]
PlausibleFields(d) == {f \in Fields(d) : is_price_plausible(f[1], FieldPrice(d, f))}
SuspiciousFields(d) ==
    {f \in Fields(d) : FieldPrice(d, f) # None /\ ~is_price_plausible(f[1], FieldPrice(d, f))}

\* C3: validate_data marks a snapshot suspicious exactly when some populated
\* gold or silver field is implausible (an absent field never does), and it
\* rejects every snapshot so marked, however many other fields are valid.
C3_SuspiciousFieldRejects ==
    pc = "verdict_returned"
    => /\ Val(verdict).suspicious_found <=> SuspiciousFields(data) # {}
       /\ SuspiciousFields(data) # {} => ~Val(verdict).is_valid

\* a snapshot of 12 fields, 11 of them plausible and one gold field at 745,
\* has been rejected
C3_Witness ==
    /\ pc = "verdict_returned"
    /\ Cardinality(Fields(data)) = 12
    /\ Cardinality(PlausibleFields(data)) = 11
    /\ \E f \in SuspiciousFields(data) :
          f[1] = "gold" /\ FieldPrice(data, f) = Some(FromInt(745))
    /\ ~Val(verdict).is_valid

\* C4: validate_data counts both sides of every grade of the snapshot as
\* total and exactly the plausible fields as valid, and it accepts a
\* snapshot with no suspicious field if and only if total > 0 and
\* valid / total > 0.8 strictly.
C4_CoverageThreshold ==
    pc = "verdict_returned"
    => /\ Val(verdict).total_prices = 2 * Cardinality(Grades(data))
       /\ Val(verdict).valid_prices = Cardinality(PlausibleFields(data))
       /\ SuspiciousFields(data) = {}
          => (Val(verdict).is_valid
              <=> /\ Cardinality(Grades(data)) > 0
                  /\ 5 * Cardinality(PlausibleFields(data)) > 4 * Cardinality(Fields(data)))

\* a snapshot with 10 of its 12 fields plausible and 2 absent has been accepted
C4_Witness ==
    /\ pc = "verdict_returned"
    /\ Cardinality(Fields(data)) = 12
    /\ Cardinality(PlausibleFields(data)) = 10
    /\ SuspiciousFields(data) = {}
    /\ Val(verdict).is_valid

\* a snapshot with 8 of its 10 fields plausible and 2 absent has been rejected
C4_AtThreshold ==
    /\ pc = "verdict_returned"
    /\ Cardinality(Fields(data)) = 10
    /\ Cardinality(PlausibleFields(data)) = 8
    /\ SuspiciousFields(data) = {}
    /\ ~Val(verdict).is_valid

-----------------------------------------------------------------------------
(* extract_price_from_base64_image *)

strategies == <<"standard", "lighter_threshold", "no_dilation">>

\* What image_to_string may give for one processed image.
OcrTexts ==
    { <<>>,
      <<"1", "5">>,
      <<"2", "0">>,
      <<"2", "0", ".", "5">>,
      <<"2", "1">>,
      <<"1", "0", "0">>,
      <<"1", "0", "2">>,
      <<"1", "0", "6">>,
      <<"5", "0", "0">>,
      <<"5", "7", "6">>,
      <<"5", "7", "6", "5">>,
      <<"5", ",", "7", "6", "5">>,
      <<"5", "7", "6", "5", "5">> }

\* Counter(candidates)[c]
Count(cands, c) == Cardinality({i \in 1..Len(cands) : cands[i] = c})

\* Mutant: the first candidate, whatever the counts.
BestVal_FirstCandidate(cands) == cands[1]

\* Mutant: of several values with the highest count the one inserted last.
BestVal_LastTied(cands) ==
    LET last == CHOOSE i \in 1..Len(cands) :
                   /\ \A j \in 1..Len(cands) : Count(cands, cands[j]) <= Count(cands, cands[i])
                   /\ \A j \in (i + 1)..Len(cands) :
                         Count(cands, cands[j]) < Count(cands, cands[i])
                         \/ cands[j] = cands[i]
    IN cands[last]

\* counts.most_common()[0][0]: the value of the highest count; most_common
\* sorts the items stably by count, and a Counter keeps its keys in the
\* order of their first insertion, so of several values with the highest
\* count the one inserted first comes first.
BestVal(cands) ==
    LET first == CHOOSE i \in 1..Len(cands) :
                    /\ \A j \in 1..Len(cands) : Count(cands, cands[j]) <= Count(cands, cands[i])
                    /\ \A j \in 1..(i - 1) : Count(cands, cands[j]) < Count(cands, cands[i])
    IN cands[first]

\* min(candidates), max(candidates)
Min(cands) == cands[CHOOSE i \in 1..Len(cands) : \A j \in 1..Len(cands) : ~FloatLT(cands[j], cands[i])]
Max(cands) == cands[CHOOSE i \in 1..Len(cands) : \A j \in 1..Len(cands) : ~FloatLT(cands[i], cands[j])]

\* Mutant: a largest candidate of exactly 5 times the smallest triggers the rule.
OutlierRule_AtLeastFive(min_c, max_c) ==
    ~FloatLT(max_c, FloatTimes(5, min_c)) /\ FloatLT(FromInt(20), min_c)

\* max_c > 5 * min_c and min_c > 20
OutlierRule(min_c, max_c) ==
    FloatLT(FloatTimes(5, min_c), max_c) /\ FloatLT(FromInt(20), min_c)

\* The reduction of a non-empty list of candidates.
\* Mutant: under the outlier rule five times the smallest candidate, a value
\* no strategy produced.
Reduce_Rescaled(cands) ==
    IF OutlierRule(Min(cands), Max(cands)) THEN FloatTimes(5, Min(cands))
    ELSE BestVal(cands)

Reduce(cands) ==
    IF OutlierRule(Min(cands), Max(cands)) THEN Min(cands) ELSE BestVal(cands)

\* Mutant: no handler, the exception leaves the function.
ExceptException_Propagates == Raise

\* except Exception around the whole body: the error is printed and None
\* returned
ExceptException == Return(None)

InitExtract ==
    /\ pc = "decode"
    /\ strategy = 1
    /\ recognized = <<>>
    /\ candidates = <<>>
    /\ extracted = NotCalled
    /\ extract_exit = ""
    /\ IdleParse
    /\ IdlePlausible
    /\ IdleValidate
    /\ IdleMain
    /\ IdleScrape
    /\ IdleSelenium

\* b64decode and Image.open succeed and the image is flattened to RGB
Decode ==
    /\ pc = "decode"
    /\ pc' = "strategies"
    /\ UNCHANGED <<strategy, recognized, candidates, extracted, extract_exit>>
    /\ UNCHANGED <<parseVars, plausibleVars, validateVars, mainVars,
                   scrapeVars, seleniumVars>>

\* b64decode or Image.open raises: except Exception returns None
DecodeFails ==
    /\ pc = "decode"
    /\ pc' = "extract_returned"
    /\ extracted' = ExceptException
    /\ extract_exit' = "except"
    /\ UNCHANGED <<strategy, recognized, candidates>>
    /\ UNCHANGED <<parseVars, plausibleVars, validateVars, mainVars,
                   scrapeVars, seleniumVars>>

\* One pass of the loop: the image is processed and recognized, the text
\* parsed, and the result appended when it is not None.
TryStrategy ==
    /\ pc = "strategies"
    /\ strategy <= Len(strategies)
    /\ \E t \in OcrTexts :
          LET result == cleanup_text(Some(t)).value
          IN /\ recognized' = Append(recognized, Return(t))
             /\ candidates' = IF result # None THEN Append(candidates, Val(result))
                              ELSE candidates
    /\ strategy' = strategy + 1
    /\ UNCHANGED <<pc, extracted, extract_exit>>
    /\ UNCHANGED <<parseVars, plausibleVars, validateVars, mainVars,
                   scrapeVars, seleniumVars>>

\* process_image_variant or image_to_string raises inside the loop: the
\* except Exception around the whole body returns None
StrategyFails ==
    /\ pc = "strategies"
    /\ strategy <= Len(strategies)
    /\ recognized' = Append(recognized, Raise)
    /\ pc' = "extract_returned"
    /\ extracted' = ExceptException
    /\ extract_exit' = "except"
    /\ UNCHANGED <<strategy, candidates>>
    /\ UNCHANGED <<parseVars, plausibleVars, validateVars, mainVars,
                   scrapeVars, seleniumVars>>

\* After the loop: the reduction of the candidates, or None without any.
ReturnPrice ==
    /\ pc = "strategies"
    /\ strategy > Len(strategies)
    /\ pc' = "extract_returned"
    /\ IF candidates # <<>>
       THEN extracted' = Return(Some(Reduce(candidates))) /\ extract_exit' = "reduced"
       ELSE extracted' = Return(None) /\ extract_exit' = "no candidates"
    /\ UNCHANGED <<strategy, recognized, candidates>>
    /\ UNCHANGED <<parseVars, plausibleVars, validateVars, mainVars,
                   scrapeVars, seleniumVars>>

NextExtract == Decode \/ DecodeFails \/ TryStrategy \/ StrategyFails \/ ReturnPrice

SpecExtract == InitExtract /\ [][NextExtract]_vars

-----------------------------------------------------------------------------
(* The aggregator's claims *)

Values(cands) == {cands[i] : i \in 1..Len(cands)}
Occurrences(cands, c) == Cardinality({i \in DOMAIN cands : cands[i] = c})

\* c occurs more often than every other distinct value
StrictMode(cands, c) ==
    c \in Values(cands)
    /\ \A d \in Values(cands) \ {c} : Occurrences(cands, d) < Occurrences(cands, c)

Smallest(cands) ==
    CHOOSE c \in Values(cands) : \A d \in Values(cands) : InHundredths(c) <= InHundredths(d)
Largest(cands) ==
    CHOOSE c \in Values(cands) : \A d \in Values(cands) : InHundredths(d) <= InHundredths(c)

\* the largest candidate is more than 5 times the smallest, and the
\* smallest is greater than 20
OutlierSuspected(cands) ==
    /\ InHundredths(Largest(cands)) > 5 * InHundredths(Smallest(cands))
    /\ InHundredths(Smallest(cands)) > 2000

Reduced == pc = "extract_returned" /\ extract_exit = "reduced"

\* C9 as claimed: when one candidate value occurs more often than every
\* other, that value is returned.
C9_MajorityReturned ==
    Reduced => \A c \in Values(candidates) :
                  StrictMode(candidates, c) => extracted = Return(Some(c))

\* C9 as the code has it: when one candidate value occurs more often than
\* every other and the min/max outlier rule does not trigger (the largest
\* candidate is at most 5 times the smallest, or the smallest is at most
\* 20), that value is returned.
C9_MajorityUnlessOutlier ==
    (Reduced /\ ~OutlierSuspected(candidates))
    => \A c \in Values(candidates) :
          StrictMode(candidates, c) => extracted = Return(Some(c))

\* [100, 100, 102] has been reduced to 100
C9_Witness ==
    /\ Reduced
    /\ candidates = <<FromInt(100), FromInt(100), FromInt(102)>>
    /\ extracted = Return(Some(FromInt(100)))

\* C10: when the largest candidate is more than 5 times the smallest and
\* the smallest is greater than 20, the smallest is returned; otherwise the
\* rule does not apply and a most frequent candidate is returned.
C10_OutlierRule ==
    Reduced
    => IF OutlierSuspected(candidates)
       THEN extracted = Return(Some(Smallest(candidates)))
       ELSE \E c \in Values(candidates) :
               /\ extracted = Return(Some(c))
               /\ \A d \in Values(candidates) :
                     Occurrences(candidates, d) <= Occurrences(candidates, c)

\* [5765, 57655, 5765] has been reduced to 5765
C10_Witness ==
    /\ Reduced
    /\ candidates = <<FromInt(5765), FromInt(57655), FromInt(5765)>>
    /\ extracted = Return(Some(FromInt(5765)))

\* with the smallest candidate at the floor of 20 the rule has not applied:
\* [20, 500, 500] has been reduced to 500
C10_AtFloor ==
    /\ Reduced
    /\ candidates = <<FromInt(20), FromInt(500), FromInt(500)>>
    /\ extracted = Return(Some(FromInt(500)))

\* what the k-th strategy of the catalog contributed: the number parsed from
\* its text, None when the text did not parse
VariantValue(k) == cleanup_text(Some(recognized[k].value)).value

\* the values sharing the highest count
TopValues(cands) ==
    {c \in Values(cands) :
        \A d \in Values(cands) : Occurrences(cands, d) <= Occurrences(cands, c)}

\* the earliest strategy of the catalog whose value is among the top values
EarliestTop ==
    CHOOSE k \in 1..Len(strategies) :
        /\ VariantValue(k) # None
        /\ Val(VariantValue(k)) \in TopValues(candidates)
        /\ \A j \in 1..(k - 1) :
              VariantValue(j) = None \/ Val(VariantValue(j)) \notin TopValues(candidates)

\* C11: when the outlier rule does not trigger and several distinct values
\* share the highest count (all candidates unique included), the value
\* returned is the tied value of the earliest strategy in the catalog order
\* standard, lighter_threshold, no_dilation.
C11_TieGoesToEarliestStrategy ==
    (Reduced /\ ~OutlierSuspected(candidates)
             /\ Cardinality(TopValues(candidates)) > 1)
    => extracted = Return(VariantValue(EarliestTop))

\* standard read nothing, lighter_threshold read 102 and no_dilation 100:
\* the tie has gone to lighter_threshold's 102
C11_Witness ==
    /\ Reduced
    /\ strategies[2] = "lighter_threshold"
    /\ recognized = <<Return(<<>>), Return(<<"1", "0", "2">>), Return(<<"1", "0", "0">>)>>
    /\ extracted = Return(Some(FromInt(102)))

\* the call has ended in the except handler
Failed == pc = "extract_returned" /\ extract_exit = "except"

\* C12: extract_price_from_base64_image never raises to its caller: when the
\* image bytes fail to decode, and on any other failure inside it, it returns
\* None, and whatever it returns is None or a number.
C12_NeverRaises ==
    /\ pc = "extract_returned" => ~extracted.raised
    /\ Failed => extracted = Return(None)
    /\ (pc = "extract_returned" /\ extracted # Return(None))
         => (Reduced /\ Val(extracted.value) \in Values(candidates))

\* the image bytes did not decode: no strategy has run and None is returned
C12_Witness ==
    /\ Failed
    /\ recognized = <<>>
    /\ extracted = Return(None)

\* some strategy's preprocessing or recognition call has raised
SomeVariantFailed == \E k \in DOMAIN recognized : recognized[k].raised

\* C13: a variant whose preprocessing or recognition call fails counts as one
\* absent candidate only: every other variant of the catalog is still
\* evaluated, and when another variant produced a candidate the call returns
\* a number taken from the candidates, never None.
C13_FailedVariantIsOneAbsence ==
    (pc = "extract_returned" /\ SomeVariantFailed)
    => /\ Len(recognized) = Len(strategies)
       /\ candidates # <<>>
            => /\ extracted # Return(None)
               /\ ~extracted.raised
               /\ Val(extracted.value) \in Values(candidates)

\* the numbers parsed from the texts the strategies recognized
ParsedByVariants ==
    {Val(VariantValue(k)) : k \in {j \in DOMAIN recognized :
                                      ~recognized[j].raised /\ VariantValue(j) # None}}

\* C17: the value returned is never invented: a number returned is one of
\* the candidates parsed from some variant of the image, and None is returned
\* exactly when no variant produced a parseable candidate or the call failed.
C17_NeverInvented ==
    pc = "extract_returned"
    => /\ ~extracted.raised
       /\ extracted.value # None => Val(extracted.value) \in ParsedByVariants
       /\ extracted.value = None <=> (ParsedByVariants = {} \/ Failed)

\* only lighter_threshold read something, "5,765": 5765 is returned
C17_Witness ==
    /\ pc = "extract_returned"
    /\ recognized = <<Return(<<>>), Return(<<"5", ",", "7", "6", "5">>), Return(<<>>)>>
    /\ ParsedByVariants = {FromInt(5765)}
    /\ extracted = Return(Some(FromInt(5765)))

-----------------------------------------------------------------------------
(* Reading a text by eye: what the claims about the parser are stated in *)

Confusions ==
    [c \in {"S", "s", "O", "o", "I", "l", "B"} |->
        CASE c \in {"S", "s"} -> "5" [] c \in {"O", "o"} -> "0"
          [] c \in {"I", "l"} -> "1" [] c = "B" -> "8"]

\* the digits a text shows, confusable letters read as their digits
RECURSIVE DigitsRead(_)
DigitsRead(s) ==
    IF s = <<>> THEN <<>>
    ELSE (IF Head(s) \in Digits THEN <<Head(s)>>
          ELSE IF Head(s) \in DOMAIN Confusions THEN <<Confusions[Head(s)]>>
          ELSE <<>>) \o DigitsRead(Tail(s))

SeparatorsOf(s) == {i \in 1..Len(s) : s[i] \in {".", ","}}
LastSeparator(s) == CHOOSE i \in SeparatorsOf(s) : \A j \in SeparatorsOf(s) : j <= i
BeforeLast(s) == DigitsRead(SubSeq(s, 1, LastSeparator(s) - 1))
AfterLast(s) == DigitsRead(SubSeq(s, LastSeparator(s) + 1, Len(s)))

\* the digits of s read as a whole number
AsWhole(s) == Return(Some(Canon(DigitsToNat(BeforeLast(s) \o AfterLast(s)), 0)))
\* the digits of s read with the last separator as the decimal point
AsDecimal(s) ==
    Return(Some(Canon(DigitsToNat(BeforeLast(s) \o AfterLast(s)), Len(AfterLast(s)))))

Returned == pc = "returned" /\ text # None

\* C6: a text with exactly one separator ('.' or ',') and a digit is read
\* as a whole number, the separator dropped, when exactly three digits
\* follow the separator, and with the separator as the decimal point
\* otherwise.
C6_LoneSeparator ==
    (Returned /\ Cardinality(SeparatorsOf(Val(text))) = 1
              /\ DigitsRead(Val(text)) # <<>>)
    => parsed = (IF Len(AfterLast(Val(text))) = 3 THEN AsWhole(Val(text))
                 ELSE AsDecimal(Val(text)))

\* "5.745" has been parsed to 5745.0
C6_Witness ==
    /\ pc = "returned"
    /\ text = Some(<<"5", ".", "7", "4", "5">>)
    /\ parsed = Return(Some(FromInt(5745)))

C8_AbsenceIffNoDigit ==
    pc = "returned"
    => /\ ~parsed.raised
       /\ parsed.value = None <=> (text = None \/ DigitsRead(Val(text)) = <<>>)

\* a text of separators only has been parsed to None
C8_Witness ==
    /\ pc = "returned"
    /\ text = Some(<<".", ",">>)
    /\ parsed = Return(None)

-----------------------------------------------------------------------------
(* main *)

max_retries == 3

\* What scrape_isagha may return besides None: the required grades filled
\* in, and the other gold karats it found.
PrimaryData ==
    {[gold |-> g, silver |-> v] :
        g \in Items("gold", REQUIRED_GOLD, EXTRA_GOLD),
        v \in Items("silver", REQUIRED_SILVER, {})}

\* What scrape_safehaven may return besides None: the required grades.
BackupData ==
    {[gold |-> g, silver |-> v] :
        g \in Items("gold", REQUIRED_GOLD, {}),
        v \in Items("silver", REQUIRED_SILVER, {})}

\* if x: for x None or a dict
Truthy(x) == x # None /\ DOMAIN Val(x) # {}

\* if is_valid: (of the primary snapshot)
PrimaryAccepted(v) == v.is_valid

\* Mutant: the backup verdict is not looked at.
BackupAccepted_Unchecked(v) == TRUE

\* Mutant: the backup snapshot is never kept.
BackupAccepted_Never(v) == FALSE

\* if is_valid: (of the backup snapshot)
BackupAccepted(v) == v.is_valid

\* Mutant: the backup is tried whatever the primary gave.
BackupNeeded_Always(fd) == TRUE

\* if not final_data:
BackupNeeded(fd) == ~Truthy(fd)

\* Mutant: with nothing accepted the loop over the attempts is entered again.
AfterLoop_Restart(fd) == IF BackupNeeded(fd) THEN "scrape_isagha" ELSE "save"

\* Where main goes when the loop over the attempts has ended.
AfterLoop(fd) == IF BackupNeeded(fd) THEN "scrape_safehaven" ELSE "save"

\* final_data["last_updated"] = datetime.now(timezone.utc).isoformat()
Stamped(d) == [k \in DOMAIN d \cup {"last_updated"} |->
                 IF k = "last_updated" THEN "now" ELSE d[k]]

Init ==
    /\ pc = "scrape_isagha"
    /\ attempt = 1
    /\ data_primary = None
    /\ data_backup = None
    /\ final_data = None
    /\ prices_json = None
    /\ exit_status = None
    /\ history = <<>>
    /\ accepted = {}
    /\ IdleParse
    /\ IdlePlausible
    /\ IdleValidate
    /\ IdleExtract
    /\ IdleScrape
    /\ IdleSelenium

\* data_primary = scrape_isagha(): a snapshot, or None when it failed
TryPrimary ==
    /\ pc = "scrape_isagha"
    /\ data_primary' \in {None} \cup {Some(d) : d \in PrimaryData}
    /\ pc' = "validate_primary"
    /\ UNCHANGED <<attempt, data_backup, final_data, prices_json, exit_status,
                   history, accepted>>
    /\ UNCHANGED <<parseVars, plausibleVars, validateVars, extractVars,
                   scrapeVars, seleniumVars>>

\* The rest of the loop body. An accepted snapshot breaks out of the loop;
\* otherwise the next attempt follows, or the loop ends after max_retries.
\* A rejected snapshot is dropped here: data_primary is rebound before it
\* is read again.
ValidatePrimary ==
    /\ pc = "validate_primary"
    /\ IF Truthy(data_primary)
       THEN LET v == validate_data(Val(data_primary))
            IN /\ accepted' = IF v.is_valid THEN accepted \cup {Val(data_primary)}
                              ELSE accepted
               /\ IF PrimaryAccepted(v)
                  THEN /\ final_data' = data_primary
                       /\ history' = Append(history, "primary accepted")
                       /\ pc' = AfterLoop(final_data')
                       /\ UNCHANGED <<attempt, data_primary>>
                  ELSE /\ history' = Append(history, "primary invalid")
                       /\ data_primary' = None
                       /\ IF attempt < max_retries
                          THEN attempt' = attempt + 1 /\ pc' = "scrape_isagha"
                          ELSE UNCHANGED attempt /\ pc' = AfterLoop(final_data)
                       /\ UNCHANGED final_data
       ELSE /\ history' = Append(history, "primary failed")
            /\ data_primary' = None
            /\ IF attempt < max_retries
               THEN attempt' = attempt + 1 /\ pc' = "scrape_isagha"
               ELSE UNCHANGED attempt /\ pc' = AfterLoop(final_data)
            /\ UNCHANGED <<final_data, accepted>>
    /\ UNCHANGED <<data_backup, prices_json, exit_status>>
    /\ UNCHANGED <<parseVars, plausibleVars, validateVars, extractVars,
                   scrapeVars, seleniumVars>>

\* data_backup = scrape_safehaven(): a snapshot, or None when it failed
TryBackup ==
    /\ pc = "scrape_safehaven"
    /\ data_backup' \in {None} \cup {Some(d) : d \in BackupData}
    /\ pc' = "validate_backup"
    /\ UNCHANGED <<attempt, data_primary, final_data, prices_json, exit_status,
                   history, accepted>>
    /\ UNCHANGED <<parseVars, plausibleVars, validateVars, extractVars,
                   scrapeVars, seleniumVars>>

\* if data_backup: validate it, and keep it when it is valid
ValidateBackup ==
    /\ pc = "validate_backup"
    /\ IF Truthy(data_backup)
       THEN LET v == validate_data(Val(data_backup))
            IN /\ accepted' = IF v.is_valid THEN accepted \cup {Val(data_backup)}
                              ELSE accepted
               /\ IF BackupAccepted(v)
                  THEN /\ final_data' = data_backup
                       /\ history' = Append(history, "backup accepted")
                  ELSE /\ history' = Append(history, "backup invalid")
                       /\ UNCHANGED final_data
       ELSE /\ history' = Append(history, "backup failed")
            /\ UNCHANGED <<final_data, accepted>>
    /\ pc' = "save"
    /\ UNCHANGED <<attempt, data_primary, data_backup, prices_json, exit_status>>
    /\ UNCHANGED <<parseVars, plausibleVars, validateVars, extractVars,
                   scrapeVars, seleniumVars>>

\* The save logic: the snapshot is stamped and dumped to prices.json, or
\* the process exits with status 1. final_data names the very dict that
\* data_primary or data_backup names, so the stamp shows through that name.
Save ==
    /\ pc = "save"
    /\ IF Truthy(final_data)
       THEN LET stamped == Some(Stamped(Val(final_data)))
            IN /\ final_data' = stamped
               /\ data_primary' = IF data_primary = final_data THEN stamped
                                  ELSE data_primary
               /\ data_backup' = IF data_backup = final_data THEN stamped
                                 ELSE data_backup
               /\ prices_json' = stamped
               /\ exit_status' = Some(0)
       ELSE /\ exit_status' = Some(1)
            /\ UNCHANGED <<final_data, data_primary, data_backup, prices_json>>
    /\ pc' = "exited"
    /\ UNCHANGED <<attempt, history, accepted>>
    /\ UNCHANGED <<parseVars, plausibleVars, validateVars, extractVars,
                   scrapeVars, seleniumVars>>

Next == TryPrimary \/ ValidatePrimary \/ TryBackup \/ ValidateBackup \/ Save

Spec == Init /\ [][Next]_vars

\* the positions of main
Positions ==
    {"scrape_isagha", "validate_primary", "scrape_safehaven", "validate_backup",
     "save", "exited"}

\* A step of main, seen from its position alone: every action of Next
\* leaves the position it is taken at, and one of them is enabled at every
\* position but "exited".
Step == pc # "exited" /\ pc' \in Positions \ {pc}

\* main is one sequential process: while a statement is left to run it is
\* run, every call of a scraper returning. Under Spec the steps that change
\* pc are the steps of Next, so this is weak fairness of Next.
FairSpec == Spec /\ WF_pc(Step)

-----------------------------------------------------------------------------
(* The claims about main *)

\* the quotes of a dumped snapshot: everything but the stamp
QuotesOf(d) == [k \in DOMAIN d \ {"last_updated"} |-> d[k]]

\* C1: prices.json is written only with a snapshot that validate_data
\* accepted in this run, its quotes as they were validated; when no attempt
\* yields an accepted snapshot nothing is written and the exit status is 1.
C1_OnlyAcceptedPersisted ==
    /\ prices_json # None
       => /\ QuotesOf(Val(prices_json)) \in accepted
          /\ validate_data(QuotesOf(Val(prices_json))).is_valid
    /\ (pc = "exited" /\ accepted = {})
       => (prices_json = None /\ exit_status = Some(1))
    /\ (pc = "exited" /\ accepted # {})
       => (prices_json # None /\ exit_status = Some(0))

\* after a rejected primary attempt a later one was accepted, and that
\* snapshot has been written
C1_Witness ==
    /\ pc = "exited"
    /\ "primary invalid" \in {history[i] : i \in 1..Len(history)}
    /\ history[Len(history)] = "primary accepted"
    /\ prices_json # None
    /\ QuotesOf(Val(prices_json)) \in accepted
    /\ exit_status = Some(0)

\* both sources were rejected: nothing has been written and the status is 1
C1_NothingWritten ==
    /\ pc = "exited"
    /\ history[Len(history)] = "backup invalid"
    /\ prices_json = None
    /\ exit_status = Some(1)

PrimaryRejections == {"primary failed", "primary invalid"}
PrimaryEvents == PrimaryRejections \cup {"primary accepted"}
BackupEvents == {"backup failed", "backup invalid", "backup accepted"}

\* C2: the backup is attempted if and only if the 3 primary attempts were
\* all rejected, a failed scrape and an invalid snapshot each using up one
\* attempt; an accepted primary snapshot is the last attempt of the run;
\* the backup is attempted once and judged by validate_data.
C2_BackupOnlyAfterThreeRejections ==
    LET n == Len(history)
        backups == {i \in 1..n : history[i] \in BackupEvents}
        primaries == {i \in 1..n : history[i] \in PrimaryEvents}
        allRejected == /\ Cardinality(primaries) = max_retries
                       /\ \A i \in primaries : history[i] \in PrimaryRejections
    IN /\ Cardinality(primaries) <= max_retries
       /\ Cardinality(backups) <= 1
       /\ \A i \in primaries : history[i] = "primary accepted" => i = n
       /\ \A i \in backups : i = max_retries + 1 /\ allRejected
       /\ (allRejected /\ pc \in {"save", "exited"}) => backups # {}
       /\ (allRejected /\ pc \notin {"save", "exited"})
          => pc \in {"scrape_safehaven", "validate_backup"}
       /\ Cardinality(primaries) = (IF pc \in {"scrape_isagha", "validate_primary"}
                                    THEN attempt - 1 ELSE n - Cardinality(backups))
       /\ \A i \in backups :
             /\ history[i] = "backup accepted"
                => (Truthy(data_backup) /\ QuotesOf(Val(data_backup)) \in accepted)
             /\ history[i] = "backup invalid"
                => (Truthy(data_backup) /\ ~validate_data(Val(data_backup)).is_valid)
             /\ history[i] = "backup failed" => data_backup = None

\* a failed scrape and two invalid snapshots used up the primary attempts,
\* and the backup has then been tried and accepted
C2_Witness ==
    /\ history = <<"primary failed", "primary invalid", "primary invalid",
                   "backup accepted">>
    /\ pc = "exited"

\* the keys of a dumped snapshot besides the metals and the stamp
Tags(d) == DOMAIN d \ {"gold", "silver", "last_updated"}

\* main has ended after three rejected primary attempts and a backup
\* snapshot that validate_data accepts
BackupTookOver ==
    /\ pc = "exited"
    /\ Len(history) > max_retries
    /\ \A i \in 1..max_retries : history[i] \in PrimaryRejections
    /\ Truthy(data_backup)
    /\ validate_data(QuotesOf(Val(data_backup))).is_valid

\* C14 as claimed: when the primary source is rejected on all 3 attempts
\* and the backup returns a snapshot that validate_data accepts, the result
\* of main is the backup snapshot, and what is persisted carries a tag with
\* the identity of the backup source.
C14_BackupResultTagged ==
    BackupTookOver
    => /\ prices_json # None
       /\ QuotesOf(Val(prices_json)) = QuotesOf(Val(data_backup))
       /\ Tags(Val(prices_json)) # {}

\* C14 as the code has it: when the primary source is rejected on all 3 attempts and
\* the backup returns a snapshot that validate_data accepts, the result of
\* main is the backup snapshot: prices.json holds its quotes and the
\* last_updated stamp and nothing else, no tag of the source, and the exit
\* status is 0.
C14_BackupResultPersisted ==
    BackupTookOver
    => /\ final_data = data_backup
       /\ prices_json # None
       /\ QuotesOf(Val(prices_json)) = QuotesOf(Val(data_backup))
       /\ QuotesOf(Val(prices_json)) \in BackupData
       /\ DOMAIN Val(prices_json) = {"gold", "silver", "last_updated"}
       /\ exit_status = Some(0)

\* three invalid primary snapshots, then the backup snapshot accepted and
\* written
C14_Witness ==
    /\ BackupTookOver
    /\ history = <<"primary invalid", "primary invalid", "primary invalid",
                   "backup accepted">>
    /\ data_primary = None
    /\ prices_json = data_backup
    /\ exit_status = Some(0)

\* the two ways main ends
OutcomeAccepted == prices_json # None /\ exit_status = Some(0)
OutcomeRejected == prices_json = None /\ exit_status = Some(1)

\* how far main has come: the attempts of the loop in their order, then the
\* backup, the save logic and the end
Stage ==
    CASE pc = "scrape_isagha" -> 2 * attempt - 1
      [] pc = "validate_primary" -> 2 * attempt
      [] pc = "scrape_safehaven" -> 2 * max_retries + 1
      [] pc = "validate_backup" -> 2 * max_retries + 2
      [] pc = "save" -> 2 * max_retries + 3
      [] pc = "exited" -> 2 * max_retries + 4

\* the primary and the backup attempts made so far
PrimaryAttempts == {i \in 1..Len(history) : history[i] \in PrimaryEvents}
BackupAttempts == {i \in 1..Len(history) : history[i] \in BackupEvents}

\* main has ended in exactly one of the two outcomes, after at most 3
\* primary attempts, none following an accepted one, and at most 1 backup
\* attempt, made after the primary ones
Terminated ==
    /\ pc = "exited"
    /\ OutcomeAccepted # OutcomeRejected
    /\ Cardinality(PrimaryAttempts) \in 1..max_retries
    /\ Cardinality(BackupAttempts) <= 1
    /\ Len(history) = Cardinality(PrimaryAttempts) + Cardinality(BackupAttempts)
    /\ \A i \in PrimaryAttempts : \A j \in BackupAttempts : i < j

\* C16: every scrape call returning, main always terminates, in exactly one
\* of the outcomes Accepted (prices.json written) and Rejected (exit status
\* 1), after at most 3 primary attempts and at most 1 backup attempt;
\* nothing is written and no status set before the end, and every step
\* moves on to a later position, so that nothing is gone through twice but
\* the body of the retry loop, once per attempt.
C16_Terminates ==
    /\ <>[]Terminated
    /\ [](pc # "exited" => prices_json = None /\ exit_status = None)
    /\ [](/\ Cardinality(PrimaryAttempts) <= max_retries
          /\ Cardinality(BackupAttempts) <= 1)
    /\ [][Stage' > Stage]_vars

\* three failed primary attempts and a failed backup attempt: main has ended
\* with exit status 1 and nothing written
C16_Witness ==
    /\ pc = "exited"
    /\ history = <<"primary failed", "primary failed", "primary failed",
                   "backup failed">>
    /\ OutcomeRejected
    /\ Terminated

-----------------------------------------------------------------------------
(* scrape_isagha and scrape_safehaven *)

\* The karats the scrapers name, each with the characters of its str.
KaratNames == {"24", "22", "21", "18", "14", "12", "9", "999", "925", "800"}

Chars(name) ==
    CASE name = "24" -> <<"2", "4">> [] name = "22" -> <<"2", "2">>
      [] name = "21" -> <<"2", "1">> [] name = "18" -> <<"1", "8">>
      [] name = "14" -> <<"1", "4">> [] name = "12" -> <<"1", "2">>
      [] name = "9" -> <<"9">> [] name = "999" -> <<"9", "9", "9">>
      [] name = "925" -> <<"9", "2", "5">> [] name = "800" -> <<"8", "0", "0">>

\* the karat a sequence of characters spells, None when it spells none
Spelled(s) ==
    IF \E n \in KaratNames : Chars(n) = s
    THEN Some(CHOOSE n \in KaratNames : Chars(n) = s)
    ELSE None

\* "".join(filter(str.isdigit, title_text))
RECURSIVE KeepDigits(_)
KeepDigits(s) ==
    IF s = <<>> THEN <<>>
    ELSE (IF Head(s) \in Digits THEN <<Head(s)>> ELSE <<>>) \o KeepDigits(Tail(s))

\* sub in s
Contains(s, sub) ==
    \E i \in 1..(Len(s) - Len(sub) + 1) : SubSeq(s, i, i + Len(sub) - 1) = sub

\* dict[k] = v
Put(dict, k, v) == [x \in DOMAIN dict \cup {k} |-> IF x = k THEN v ELSE dict[x]]

\* dict.get(k, default)
Get(dict, k, default) == IF k \in DOMAIN dict THEN dict[k] ELSE default

NoQuote == [sell |-> None, buy |-> None]

metals == <<"gold", "silver">>
GOLD_KARATS == {"24", "22", "21", "18", "14", "12", "9"}
SILVER_KARATS == {"999", "925", "800"}
required_keys == [gold |-> {"24", "21", "18"}, silver |-> {"999", "925", "800"}]

\* get_price_from_card: (None, None) for a card without its stats block,
\* otherwise what the "sell" and the "buy" column gave
get_price_from_card(card) ==
    IF card.stats = None THEN <<None, None>>
    ELSE <<Val(card.stats).sell, Val(card.stats).buy>>

\* The body of the loop over the cards of the container of metal m:
\* a card without a gauge title, or with a title without digits, is
\* skipped; the quote of a card of a listed karat is stored.
StoreCard(d, m, card) ==
    IF card.gauge = None THEN d
    ELSE LET karat == KeepDigits(Val(card.gauge))
             quote == get_price_from_card(card)
             item == [sell |-> quote[1], buy |-> quote[2]]
         IN IF karat = <<>> \/ Spelled(karat) = None THEN d
            ELSE IF m = "gold" /\ Val(Spelled(karat)) \in GOLD_KARATS
                 THEN [d EXCEPT !.gold = Put(d.gold, Val(Spelled(karat)), item)]
            ELSE IF m = "silver" /\ Val(Spelled(karat)) \in SILVER_KARATS
                 THEN [d EXCEPT !.silver = Put(d.silver, Val(Spelled(karat)), item)]
            ELSE d

\* Mutant: the required keys are not filled in.
FillRequired_Skipped(d) == d

\* for metal, keys in required_keys.items(): every missing key gets
\* {"sell": None, "buy": None}
FillRequired(d) ==
    [m \in DOMAIN d |->
        [k \in DOMAIN d[m] \cup required_keys[m] |-> Get(d[m], k, NoQuote)]]

\* The karat parse_table_row reads from the name of a row: the first of
\* 24, 22, 21, 18, 999, 925, 800 the name contains.
RowKarat(name) ==
    LET chain == <<"24", "22", "21", "18", "999", "925", "800">>
        hits == {i \in 1..Len(chain) : Contains(name, Chars(chain[i]))}
    IN IF hits = {} THEN None
       ELSE Some(chain[CHOOSE i \in hits : \A j \in hits : i <= j])

\* parse_table_row: (None, None, None) for a row of fewer than 3 cells
parse_table_row(row) ==
    IF row.cols < 3 THEN <<None, None, None>>
    ELSE <<RowKarat(row.name),
           cleanup_text(Some(row.sell)).value,
           cleanup_text(Some(row.buy)).value>>

\* The body of the loop over the rows: if karat: the item goes to
\* gold_data when int(karat) < 100, else to silver_data.
StoreRow(d, row) ==
    LET r == parse_table_row(row)
        item == [sell |-> r[2], buy |-> r[3]]
    IN IF r[1] = None THEN d
       ELSE IF DigitsToNat(Chars(Val(r[1]))) < 100
            THEN [d EXCEPT !.gold = Put(d.gold, Val(r[1]), item)]
            ELSE [d EXCEPT !.silver = Put(d.silver, Val(r[1]), item)]

\* The snapshot scrape_safehaven builds from gold_data and silver_data.
BackupSnapshot(d) ==
    [gold |-> [k \in {"24", "21", "18"} |-> Get(d.gold, k, NoQuote)],
     silver |-> [k \in {"999", "925", "800"} |-> Get(d.silver, k, NoQuote)]]

-----------------------------------------------------------------------------
(* The pages the scrapers read *)

\* how many cards, or rows, a page holds at most
MaxCards == 2

\* The titles of the gauge cards: "x" stands for the letters of a title.
CardTitles == { <<"x", "2", "4">>, <<"2", "2">>, <<"9", "9", "9">>, <<"x">> }

\* What a column of a card gives: None, or the number read from it.
RawVals == {None, Some(FromInt(5765))}

\* A card: its gauge title (None without the .gauge element) and its stats
\* block (None without it).
Cards ==
    [gauge : {None} \cup {Some(t) : t \in CardTitles},
     stats : {None} \cup {Some(q) : q \in [sell : RawVals, buy : {Some(FromInt(5765))}]}]

RowNames ==
    { <<"x", "2", "1">>, <<"2", "2">>, <<"9", "2", "5">>, <<"1", "8", "2", "4">>,
      <<"x">> }

RowTexts == { <<>>, <<"7", "5">> }

\* A table row: the number of its cells, and the texts of the first three.
Rows ==
    [cols : {3}, name : RowNames, sell : RowTexts, buy : {<<"7", "5">>}]
    \cup {[cols |-> 2, name |-> <<"x", "2", "1">>, sell |-> <<"7", "5">>,
           buy |-> <<>>]}

InitScrape ==
    /\ pc = "request"
    /\ source \in {"scrape_isagha", "scrape_safehaven"}
    /\ container = 1
    /\ seen = <<>>
    /\ scrape_data = [gold |-> <<>>, silver |-> <<>>]
    /\ scraped = NotCalled
    /\ IdleParse
    /\ IdlePlausible
    /\ IdleValidate
    /\ IdleExtract
    /\ IdleMain
    /\ IdleSelenium

\* requests.get or raise_for_status raises: except Exception returns None
RequestFails ==
    /\ pc = "request"
    /\ scraped' = Return(None)
    /\ pc' = "scrape_returned"
    /\ UNCHANGED <<source, container, seen, scrape_data>>
    /\ UNCHANGED <<parseVars, plausibleVars, validateVars, extractVars,
                   mainVars, seleniumVars>>

\* the page has been fetched and parsed
RequestDone ==
    /\ pc = "request"
    /\ pc' = IF source = "scrape_isagha" THEN "cards" ELSE "rows"
    /\ UNCHANGED scrapeVars
    /\ UNCHANGED <<parseVars, plausibleVars, validateVars, extractVars,
                   mainVars, seleniumVars>>

\* scrape_isagha: one card of the container of the current metal
ReadCard ==
    /\ pc = "cards"
    /\ container <= Len(metals)
    /\ Len(seen) < MaxCards
    /\ \E card \in Cards :
          /\ seen' = Append(seen, [metal |-> metals[container], card |-> card])
          /\ scrape_data' = StoreCard(scrape_data, metals[container], card)
    /\ UNCHANGED <<pc, source, container, scraped>>
    /\ UNCHANGED <<parseVars, plausibleVars, validateVars, extractVars,
                   mainVars, seleniumVars>>

\* scrape_isagha: the container was not found (continue), or its cards are
\* exhausted: on to the next metal
NextContainer ==
    /\ pc = "cards"
    /\ container <= Len(metals)
    /\ container' = container + 1
    /\ UNCHANGED <<pc, source, seen, scrape_data, scraped>>
    /\ UNCHANGED <<parseVars, plausibleVars, validateVars, extractVars,
                   mainVars, seleniumVars>>

\* scrape_isagha: after the loops the required keys are filled in and data
\* is returned
ReturnPrimary ==
    /\ pc = "cards"
    /\ container > Len(metals)
    /\ scraped' = Return(Some(FillRequired(scrape_data)))
    /\ pc' = "scrape_returned"
    /\ UNCHANGED <<source, container, seen, scrape_data>>
    /\ UNCHANGED <<parseVars, plausibleVars, validateVars, extractVars,
                   mainVars, seleniumVars>>

\* scrape_safehaven: one row of one table
ReadRow ==
    /\ pc = "rows"
    /\ Len(seen) < MaxCards
    /\ \E row \in Rows :
          /\ seen' = Append(seen, row)
          /\ scrape_data' = StoreRow(scrape_data, row)
    /\ UNCHANGED <<pc, source, container, scraped>>
    /\ UNCHANGED <<parseVars, plausibleVars, validateVars, extractVars,
                   mainVars, seleniumVars>>

\* scrape_safehaven: after the loops the snapshot is built and returned
ReturnBackup ==
    /\ pc = "rows"
    /\ scraped' = Return(Some(BackupSnapshot(scrape_data)))
    /\ pc' = "scrape_returned"
    /\ UNCHANGED <<source, container, seen, scrape_data>>
    /\ UNCHANGED <<parseVars, plausibleVars, validateVars, extractVars,
                   mainVars, seleniumVars>>

NextScrape ==
    \/ RequestFails \/ RequestDone
    \/ ReadCard \/ NextContainer \/ ReturnPrimary
    \/ ReadRow \/ ReturnBackup

SpecScrape == InitScrape /\ [][NextScrape]_vars

-----------------------------------------------------------------------------
(* The claims about the scrapers *)

\* the instruments every snapshot is expected to quote
Expected == [gold |-> {"24", "21", "18"}, silver |-> {"999", "925", "800"}]

\* the quotes the page showed for karat k of metal m: of the cards of the
\* container of m titled k, or of the full rows named k
Located(m, k) ==
    IF source = "scrape_isagha"
    THEN {[sell |-> get_price_from_card(seen[i].card)[1],
           buy |-> get_price_from_card(seen[i].card)[2]] :
             i \in {j \in DOMAIN seen :
                      /\ seen[j].metal = m
                      /\ seen[j].card.gauge # None
                      /\ KeepDigits(Val(seen[j].card.gauge)) = Chars(k)}}
    ELSE {[sell |-> parse_table_row(seen[i])[2],
           buy |-> parse_table_row(seen[i])[3]] :
             i \in {j \in DOMAIN seen : parse_table_row(seen[j])[1] = Some(k)}}

\* C15: every snapshot scrape_isagha or scrape_safehaven returns has, for
\* each of gold 24, 21, 18 and silver 999, 925, 800, an entry with a sell
\* and a buy field; the entry is all None when the page showed nothing for
\* the instrument, and what the page showed for the other instruments is
\* in their entries all the same.
C15_EveryExpectedInstrumentPresent ==
    (pc = "scrape_returned" /\ scraped.value # None)
    => LET snapshot == Val(scraped.value)
       IN /\ DOMAIN snapshot = {"gold", "silver"}
          /\ \A m \in DOMAIN Expected : \A k \in Expected[m] :
                /\ k \in DOMAIN snapshot[m]
                /\ DOMAIN snapshot[m][k] = {"sell", "buy"}
                /\ Located(m, k) = {} => snapshot[m][k] = NoQuote
                /\ Located(m, k) # {} => snapshot[m][k] \in Located(m, k)

\* scrape_isagha found no card for gold and, for silver, a 999 card with
\* both prices and a card without its stats block: the snapshot returned
\* has all six entries, silver 999 with its prices, the others empty
C15_Witness ==
    /\ pc = "scrape_returned"
    /\ source = "scrape_isagha"
    /\ scraped.value # None
    /\ Len(seen) = 2
    /\ Val(scraped.value).gold =
          [k \in {"24", "21", "18"} |-> NoQuote]
    /\ Val(scraped.value).silver =
          [k \in {"999", "925", "800"} |->
             IF k = "999" THEN [sell |-> Some(FromInt(5765)), buy |-> Some(FromInt(5765))]
             ELSE NoQuote]

-----------------------------------------------------------------------------
(* scraper_selenium.py and scraper_selenium_fixed.py: scrape_prices, main *)

Scripts == {"scraper_selenium", "scraper_selenium_fixed"}

\* The instruments scrape_prices looks for, in the order of its two loops.
Instruments ==
    << <<"gold", "24">>, <<"gold", "21">>, <<"gold", "18">>,
       <<"silver", "999">>, <<"silver", "925">>, <<"silver", "800">> >>

\* What ocr_from_element returns: a price, or None.
OcrResults == {None, Some(FromInt(5765))}

\* What find_prices_selenium returns for the panel of an instrument whose
\* two images read as sell and buy: both prices when both were read; in
\* scraper_selenium_fixed also a single one; otherwise (None, None).
find_prices_selenium(s, sell, buy) ==
    IF sell # None /\ buy # None THEN <<sell, buy>>
    ELSE IF s = "scraper_selenium_fixed" /\ (sell # None \/ buy # None)
         THEN <<sell, buy>>
    ELSE <<None, None>>

\* data[metal][karat] = {"sell": sell, "buy": buy}
SetQuote(d, ins, quote) ==
    [d EXCEPT ![ins[1]] = Put(d[ins[1]], ins[2],
                              [sell |-> quote[1], buy |-> quote[2]])]

\* the number of prices that are not None under the keys of a dict of quotes
RECURSIVE CountPrices(_, _)
CountPrices(items, keys) ==
    IF keys = {} THEN 0
    ELSE LET k == CHOOSE x \in keys : TRUE
         IN (IF items[k].sell # None THEN 1 ELSE 0)
            + (IF items[k].buy # None THEN 1 ELSE 0)
            + CountPrices(items, keys \ {k})

\* total_prices: the str under "last_updated" is no dict and counts nothing
total_prices(d) ==
    CountPrices(d.gold, DOMAIN d.gold) + CountPrices(d.silver, DOMAIN d.silver)

\* if total_prices == 0: raise ValueError
NothingExtracted(total) == total = 0

InitSelenium ==
    /\ pc = "setup_driver"
    /\ script \in Scripts
    /\ browser = "none"
    /\ driver = None
    /\ karat_ix = 1
    /\ sel_data = <<>>
    /\ scrape_result = NotCalled
    /\ main_result = NotCalled
    /\ prices_file = None
    /\ IdleParse
    /\ IdlePlausible
    /\ IdleValidate
    /\ IdleExtract
    /\ IdleMain
    /\ IdleScrape

\* driver = setup_driver(): Chrome is started and the driver assigned
SetupDriver ==
    /\ pc = "setup_driver"
    /\ browser' = "running"
    /\ driver' = Some("driver")
    /\ pc' = "get"
    /\ UNCHANGED <<script, karat_ix, sel_data, scrape_result, main_result,
                   prices_file>>
    /\ UNCHANGED <<parseVars, plausibleVars, validateVars, extractVars,
                   mainVars, scrapeVars>>

\* webdriver.Chrome raises: no browser, and driver is still None
ChromeFails ==
    /\ pc = "setup_driver"
    /\ scrape_result' = Raise
    /\ pc' = "finally"
    /\ UNCHANGED <<script, browser, driver, karat_ix, sel_data, main_result,
                   prices_file>>
    /\ UNCHANGED <<parseVars, plausibleVars, validateVars, extractVars,
                   mainVars, scrapeVars>>

\* scraper_selenium_fixed: webdriver.Chrome has started the browser and
\* driver.execute_script raises inside setup_driver: the exception leaves
\* setup_driver before its return, and driver in scrape_prices is still None
ExecuteScriptFails ==
    /\ pc = "setup_driver"
    /\ script = "scraper_selenium_fixed"
    /\ browser' = "running"
    /\ scrape_result' = Raise
    /\ pc' = "finally"
    /\ UNCHANGED <<script, driver, karat_ix, sel_data, main_result, prices_file>>
    /\ UNCHANGED <<parseVars, plausibleVars, validateVars, extractVars,
                   mainVars, scrapeVars>>

\* driver.get(URL) and the wait for #gold succeed; data is set up
LoadPage ==
    /\ pc = "get"
    /\ sel_data' = [gold |-> <<>>, silver |-> <<>>, last_updated |-> "now"]
    /\ pc' = "find_prices"
    /\ UNCHANGED <<script, browser, driver, karat_ix, scrape_result, main_result,
                   prices_file>>
    /\ UNCHANGED <<parseVars, plausibleVars, validateVars, extractVars,
                   mainVars, scrapeVars>>

\* driver.get raises, or the wait times out
LoadPageFails ==
    /\ pc = "get"
    /\ scrape_result' = Raise
    /\ pc' = "finally"
    /\ UNCHANGED <<script, browser, driver, karat_ix, sel_data, main_result,
                   prices_file>>
    /\ UNCHANGED <<parseVars, plausibleVars, validateVars, extractVars,
                   mainVars, scrapeVars>>

\* One pass of the loops over the karats: find_prices_selenium, which
\* catches its exceptions, and the store of what it returned
FindPrices ==
    /\ pc = "find_prices"
    /\ karat_ix <= Len(Instruments)
    /\ \E sell \in OcrResults, buy \in OcrResults :
          sel_data' = SetQuote(sel_data, Instruments[karat_ix],
                               find_prices_selenium(script, sell, buy))
    /\ karat_ix' = karat_ix + 1
    /\ UNCHANGED <<pc, script, browser, driver, scrape_result, main_result,
                   prices_file>>
    /\ UNCHANGED <<parseVars, plausibleVars, validateVars, extractVars,
                   mainVars, scrapeVars>>

\* After the loops: ValueError when nothing was extracted, else return data
CountPricesFound ==
    /\ pc = "find_prices"
    /\ karat_ix > Len(Instruments)
    /\ scrape_result' = IF NothingExtracted(total_prices(sel_data)) THEN Raise
                        ELSE Return(sel_data)
    /\ pc' = "finally"
    /\ UNCHANGED <<script, browser, driver, karat_ix, sel_data, main_result,
                   prices_file>>
    /\ UNCHANGED <<parseVars, plausibleVars, validateVars, extractVars,
                   mainVars, scrapeVars>>

\* finally: if driver: driver.quit(); then scrape_prices ends as its try
\* block did
Finally ==
    /\ pc = "finally"
    /\ browser' = IF driver # None THEN "quit" ELSE browser
    /\ pc' = "main"
    /\ UNCHANGED <<script, driver, karat_ix, sel_data, scrape_result, main_result,
                   prices_file>>
    /\ UNCHANGED <<parseVars, plausibleVars, validateVars, extractVars,
                   mainVars, scrapeVars>>

\* main: scrape_prices returned data, which is dumped to prices.json
WritePrices ==
    /\ pc = "main"
    /\ ~scrape_result.raised
    /\ prices_file' = Some(scrape_result.value)
    /\ main_result' = Return(None)
    /\ pc' = "main_ended"
    /\ UNCHANGED <<script, browser, driver, karat_ix, sel_data, scrape_result>>
    /\ UNCHANGED <<parseVars, plausibleVars, validateVars, extractVars,
                   mainVars, scrapeVars>>

\* main: except Exception prints the error and raises it again
Reraise ==
    /\ pc = "main"
    /\ scrape_result.raised
    /\ main_result' = Raise
    /\ pc' = "main_ended"
    /\ UNCHANGED <<script, browser, driver, karat_ix, sel_data, scrape_result,
                   prices_file>>
    /\ UNCHANGED <<parseVars, plausibleVars, validateVars, extractVars,
                   mainVars, scrapeVars>>

NextSelenium ==
    \/ SetupDriver \/ ChromeFails \/ ExecuteScriptFails
    \/ LoadPage \/ LoadPageFails
    \/ FindPrices \/ CountPricesFound
    \/ Finally
    \/ WritePrices \/ Reraise

SpecSelenium == InitSelenium /\ [][NextSelenium]_vars

-----------------------------------------------------------------------------
(* The claim about the Selenium scrapers *)

\* the fields, of the 12, that scrape_prices has extracted
FieldsExtracted ==
    IF sel_data = <<>> THEN {}
    ELSE {<<m, k, side>> \in {"gold", "silver"} \X KaratNames \X {"sell", "buy"} :
            /\ k \in DOMAIN sel_data[m]
            /\ sel_data[m][k][side] # None}

\* C18: in scraper_selenium.py and scraper_selenium_fixed.py main writes
\* prices.json if and only if scrape_prices extracted at least one of the
\* 12 fields; with no field extracted an error leaves main and no file is
\* written; and whenever the browser was started, scrape_prices has quit it
\* by the time it ends, on the error paths too.
C18_WrittenIffExtractedAndDriverQuit ==
    /\ prices_file # None => FieldsExtracted # {}
    /\ pc = "main_ended" => (prices_file # None <=> FieldsExtracted # {})
    /\ (pc = "main_ended" /\ FieldsExtracted = {})
         => (main_result.raised /\ prices_file = None)
    /\ (pc \in {"main", "main_ended"} /\ browser # "none") => browser = "quit"

====
